---------------------------- MODULE Spec2Model ----------------------------
(***************************************************************************)
(* Model of the graph commands of fromager (src/fromager/commands/graph.py) *)
(* : legacy migration (migrate_graph), the provenance explainer (why /      *)
(* find_why), conflict detection (explain_duplicates) and the build-plan    *)
(* export (MakeNode, to_makefile), over the dependency graph that           *)
(* add_dependency builds; and of the lookup of a source archive and of a    *)
(* source directory in mirror_builder (_find_sdist, _find_source_dir).      *)
(*                                                                         *)
(* Strings are sequences of one-character strings, so that building a key   *)
(* ("<name>==<version>") and taking it apart again (str.partition) are      *)
(* computed, not assumed.                                                   *)
(***************************************************************************)
EXTENDS Integers, Sequences, FiniteSets, TLC

VARIABLES
    nodes,       \* DependencyGraph.nodes: the node keys, in insertion order
    edges,       \* every Edge of the graph, in the order add_dependency made them
    old_graph,   \* migrate_graph: the legacy mapping read from the file
    stack,       \* migrate_graph: the worklist
    visited,     \* migrate_graph: the visited set
    processed,   \* migrate_graph: how often each key's tuples were iterated (history)
    calls,       \* migrate_graph: the add_dependency calls made, in order (history)
    mig_pc,      \* migrate_graph: "idle" | "loop" | "done"
    why_args,    \* why: [node, max_depth, req_type] of the running query
    why_stack,   \* find_why: the call stack, innermost invocation last
    why_out,     \* find_why: the lines printed, in order
    why_pc,      \* why: "build" | "run" | "done" | "RecursionError"
    make_out,    \* to_makefile: the rule blocks printed (or the error raised)
    make_pc,     \* to_makefile: "build" | "done" | "RecursionError"
    dup_out,     \* explain_duplicates: the verdict lines printed
    dup_pc,      \* explain_duplicates: "build" | "done"
    listing,     \* mirror_builder: the names glob('*') yields, in the order it yields them
    find_args,   \* _find_sdist / _find_source_dir: [func, name, override] of the call
    find_out,    \* _find_sdist / _find_source_dir: the path returned, or the error raised
    find_pc      \* mirror_builder: "setup" | "done" | "RuntimeError"

vars == <<nodes, edges, old_graph, stack, visited, processed, calls, mig_pc,
          why_args, why_stack, why_out, why_pc, make_out, make_pc, dup_out, dup_pc,
          listing, find_args, find_out, find_pc>>

graphVars == <<nodes, edges>>
migVars   == <<old_graph, stack, visited, processed, calls, mig_pc>>
whyVars   == <<why_args, why_stack, why_out, why_pc>>
makeVars  == <<make_out, make_pc>>
dupVars   == <<dup_out, dup_pc>>
findVars  == <<listing, find_args, find_out, find_pc>>

\* Python's None, where a name (a string) is expected and where a version is
NoName == <<"None">>
NoVersion == -1

-----------------------------------------------------------------------------
(* Bounds of the model *)

\* longest adjacency list of a legacy key
MaxAdj == 2
\* most add_dependency calls that build the graph a command then reads
MaxEdges == 3
\* most add_dependency calls that build the graph the build-plan export reads
MaxMakeEdges == 4
\* most requirements on the duplicated package in the graph explain_duplicates reads
MaxDupEdges == 3
\* most entries of the directory _find_sdist / _find_source_dir looks into
MaxEntries == 3
\* frames of find_why / from_graph_node the interpreter allows before it raises
\* RecursionError (Python's limit is 1000; scaled down)
RecursionLimit == 4

-----------------------------------------------------------------------------
(* Strings, names, versions *)

\* The one element of a singleton set. {F(x) : x \in {e}} evaluates e once and
\* hands F its value, where a LET definition or an argument is evaluated again
\* at every use.
Only(S) == CHOOSE x \in S : TRUE

\* fromager.dependency_graph.ROOT, the key of the root node: the empty string
ROOT == <<>>

EqEq == <<"=", "=">>

RECURSIVE FindSep(_, _)
\* the index of the first "==" of s at or after i, 0 when there is none
FindSep(s, i) ==
    IF i + 1 > Len(s) THEN 0
    ELSE IF s[i] = "=" /\ s[i + 1] = "=" THEN i
    ELSE FindSep(s, i + 1)

\* str.partition("=="): (head, separator, tail)
Partition(s) ==
    Only({ IF i = 0 THEN <<t, <<>>, <<>>>>
           ELSE <<SubSeq(t, 1, i - 1), EqEq, SubSeq(t, i + 2, Len(t))>> :
           <<t, i>> \in {<<t2, FindSep(t2, 1)>> : t2 \in {s}} })

Lower(c) ==
    CASE c = "A" -> "a"
      [] c = "B" -> "b"
      [] c = "C" -> "c"
      [] c = "X" -> "x"
      [] OTHER -> c

IsNameSep(c) == c \in {"-", "_", "."}

RECURSIVE CanonFrom(_, _)
CanonFrom(s, i) ==
    IF i > Len(s) THEN <<>>
    ELSE IF IsNameSep(s[i])
         THEN IF i > 1 /\ IsNameSep(s[i - 1]) THEN CanonFrom(s, i + 1)
              ELSE <<"-">> \o CanonFrom(s, i + 1)
         ELSE <<Lower(s[i])>> \o CanonFrom(s, i + 1)

\* packaging.utils.canonicalize_name: runs of -_. become one "-", then lower case
canonicalize_name(name) == Only({CanonFrom(s, 1) : s \in {name}})

Digits == <<"0", "1", "2", "3", "4", "5", "6", "7", "8", "9">>

DigitVal(c) == (CHOOSE d \in 1..10 : Digits[d] = c) - 1

RECURSIVE ParseDigits(_, _)
\* the number the first i digits of s spell
ParseDigits(s, i) ==
    IF i = 0 THEN 0 ELSE 10 * ParseDigits(s, i - 1) + DigitVal(s[i])

\* packaging.version.Version(text): the parsed, comparable version
Version(s) == Only({ParseDigits(t, Len(t)) : t \in {s}})

RECURSIVE VersionStr(_)
\* str(version)
VersionStr(v) ==
    IF v < 10 THEN <<Digits[v + 1]>>
    ELSE VersionStr(v \div 10) \o <<Digits[(v % 10) + 1]>>

\* DependencyNode.key of a named node
NodeKey(name, version) ==
    name \o EqEq \o (IF version = NoVersion THEN <<"N", "o", "n", "e">> ELSE VersionStr(version))

IsOpChar(c) == c \in {"=", ">", "<", "!", "~"}

RECURSIVE NameEnd(_, _)
NameEnd(s, i) ==
    IF i > Len(s) \/ IsOpChar(s[i]) THEN i - 1 ELSE NameEnd(s, i + 1)

\* packaging.requirements.Requirement(text): the name, and the specifier as
\* (operator, version); a bare name has the empty specifier, which accepts all
Requirement(s) ==
    Only({ [name |-> SubSeq(t, 1, n),
            op   |-> IF n = Len(t) THEN <<>> ELSE SubSeq(t, n + 1, n + 2),
            ver  |-> IF n = Len(t) THEN 0 ELSE Version(SubSeq(t, n + 3, Len(t)))] :
           <<t, n>> \in {<<t2, NameEnd(t2, 1)>> : t2 \in {s}} })

\* SpecifierSet.contains, for the operators the model uses
Accepts(req, v) ==
    CASE req.op = <<>>       -> TRUE
      [] req.op = EqEq       -> v = req.ver
      [] req.op = <<">", "=">> -> v >= req.ver
      [] req.op = <<"<", "=">> -> v <= req.ver
      [] OTHER -> FALSE

-----------------------------------------------------------------------------
(* The dependency graph *)

\* fromager.requirements_file.RequirementType
INSTALL       == "install"
TOP_LEVEL     == "toplevel"
BUILD         == "build"
BUILD_SYSTEM  == "build-system"
BUILD_BACKEND == "build-backend"

RequirementType == {INSTALL, TOP_LEVEL, BUILD, BUILD_SYSTEM, BUILD_BACKEND}

SeqContains(s, x) == \E i \in 1..Len(s) : s[i] = x

AppendNew(s, x) == IF SeqContains(s, x) THEN s ELSE Append(s, x)

\* DependencyGraph(): only the root node, no edges
EmptyGraph == [nodes |-> <<ROOT>>, edges |-> <<>>]

\* DependencyGraph.add_dependency: look up or create the parent node (ROOT when
\* parent_name is None), look up or create the child node keyed by
\* (canonicalize(req.name), req_version), append one new Edge
add_dependency(g, parent_name, parent_version, req_type, req_version, req) ==
    Only({ [nodes |-> AppendNew(AppendNew(g.nodes, k[1]), k[2]),
            edges |-> Append(g.edges,
                             [parent |-> k[1], child |-> k[2],
                              req_type |-> req_type, req |-> req])] :
           k \in {<<IF parent_name = NoName THEN ROOT
                    ELSE NodeKey(canonicalize_name(parent_name), parent_version),
                    NodeKey(canonicalize_name(req.name), req_version)>>} })

\* DependencyNode.children: the node's outgoing edges, in order
Children(es, key) == LET T(e) == e.parent = key IN SelectSeq(es, T)

\* DependencyNode.parents: the node's incoming edges, in order
Parents(es, key) == LET T(e) == e.child = key IN SelectSeq(es, T)

-----------------------------------------------------------------------------
(* migrate_graph: the legacy flat format into the graph *)

KeyA == <<"a", "=", "=", "1">>
KeyB == <<"B", "=", "=", "2">>

\* the keys a legacy file of the model may hold
LegacyKeys == {ROOT, KeyA, KeyB}

\* the adjacency tuples [req_type, req_name, req_version, req] a legacy file of
\* the model may hold, as the JSON strings they are
TupleA == <<INSTALL, <<"a">>, <<"1">>, <<"a", ">", "=", "1">>>>
TupleB == <<BUILD, <<"B">>, <<"2">>, <<"B">>>>
TupleC == <<INSTALL, <<"c">>, <<"3">>, <<"c", "=", "=", "3">>>>

LegacyTuples == {TupleA, TupleB, TupleC}

SeqsUpTo(S, n) == UNION {[1..k -> S] : k \in 0..n}

\* the legacy mappings of the model: up to MaxAdj tuples under each named key,
\* and one fewer under ROOT
LegacyGraphs ==
    {[k \in LegacyKeys |-> IF k = ROOT THEN r ELSE f[k]] :
        r \in SeqsUpTo(LegacyTuples, MaxAdj - 1),
        f \in [LegacyKeys \ {ROOT} -> SeqsUpTo(LegacyTuples, MaxAdj)]}

\* old_graph.get(curr_key, [])
OldGraphGet(og, key) == IF key \in DOMAIN og THEN og[key] ELSE <<>>

\* (mutation) the child key built from the canonical name, not the recorded one
ChildKeyCanonical(t) == canonicalize_name(t[2]) \o EqEq \o t[3]

\* f"{req_name}=={req_version}"
ChildKey(t) == t[2] \o EqEq \o t[3]

\* the parent_name argument: canonicalize_name(parent_name) if parent_name else None
ParentNameArg(curr_key) ==
    LET parent_name == Partition(curr_key)[1]
    IN  IF parent_name # <<>> THEN canonicalize_name(parent_name) ELSE NoName

\* the parent_version argument: Version(parent_version) if parent_version else None
ParentVersionArg(curr_key) ==
    LET parent_version == Partition(curr_key)[3]
    IN  IF parent_version # <<>> THEN Version(parent_version) ELSE NoVersion

\* the arguments of the add_dependency call made for one tuple of curr_key
CallArgs(curr_key, t) ==
    [parent_name    |-> ParentNameArg(curr_key),
     parent_version |-> ParentVersionArg(curr_key),
     req_type       |-> t[1],
     req_version    |-> Version(t[3]),
     req            |-> Requirement(t[4])]

ApplyCall(g, c) ==
    add_dependency(g, c.parent_name, c.parent_version, c.req_type, c.req_version, c.req)

\* one turn of the for loop: the call, then stack.append(child key)
ForTuple(st, c, t) ==
    [g     |-> ApplyCall(st.g, c),
     stack |-> Append(st.stack, ChildKey(t)),
     calls |-> Append(st.calls, c)]

RECURSIVE ForTuples(_, _, _, _)
\* the for loop over the tuples of curr_key, from tuple i on: the graph, the
\* worklist and the log of calls after it
ForTuples(st, curr_key, tuples, i) ==
    IF i > Len(tuples) THEN st
    ELSE Only({ ForTuples(st2, curr_key, tuples, i + 1) :
                st2 \in {ForTuple(x[1], x[2], tuples[i]) :
                          x \in {<<st, CallArgs(curr_key, tuples[i])>>}} })

\* (mutation) the visited test left out
AlreadyVisitedNever(curr_key, vis) == FALSE

\* if curr_key in visited: continue
AlreadyVisited(curr_key, vis) == curr_key \in vis

\* visited.add(curr_key)
MarkVisited(curr_key, vis) == vis \cup {curr_key}

MigIdle ==
    /\ old_graph = <<>>
    /\ stack = <<>>
    /\ visited = {}
    /\ processed = <<>>
    /\ calls = <<>>
    /\ mig_pc = "idle"

WhyIdle ==
    /\ why_args = <<>>
    /\ why_stack = <<>>
    /\ why_out = <<>>
    /\ why_pc = "idle"

MakeIdle ==
    /\ make_out = <<>>
    /\ make_pc = "idle"

DupIdle ==
    /\ dup_out = <<>>
    /\ dup_pc = "idle"

FindIdle ==
    /\ listing = <<>>
    /\ find_args = <<>>
    /\ find_out = <<>>
    /\ find_pc = "idle"

\* migrate_graph is entered: the empty DependencyGraph(), the file not yet read
MigrateInit ==
    /\ WhyIdle /\ MakeIdle /\ DupIdle
    /\ nodes = EmptyGraph.nodes
    /\ edges = EmptyGraph.edges
    /\ old_graph = <<>>
    /\ stack = <<>>
    /\ visited = {}
    /\ processed = <<>>
    /\ calls = <<>>
    /\ mig_pc = "start"
    /\ FindIdle

\* old_graph = json.load(f); stack = [ROOT]; visited = set()
MigrateLoad ==
    /\ mig_pc = "start"
    /\ old_graph' \in LegacyGraphs
    /\ stack' = <<ROOT>>
    /\ visited' = {}
    /\ mig_pc' = "loop"
    /\ UNCHANGED <<nodes, edges, processed, calls>>
    /\ UNCHANGED <<whyVars, makeVars, dupVars>>
    /\ UNCHANGED findVars

\* one turn of the while loop that pops a key seen before
MigrateSkip ==
    /\ mig_pc = "loop"
    /\ stack # <<>>
    /\ AlreadyVisited(stack[Len(stack)], visited)
    /\ stack' = SubSeq(stack, 1, Len(stack) - 1)
    /\ UNCHANGED <<nodes, edges, old_graph, visited, processed, calls, mig_pc>>
    /\ UNCHANGED <<whyVars, makeVars, dupVars>>
    /\ UNCHANGED findVars

\* one turn of the while loop that pops a new key and runs the for loop over it
MigrateProcess ==
    /\ mig_pc = "loop"
    /\ stack # <<>>
    /\ \E curr_key \in {stack[Len(stack)]} :
         /\ ~AlreadyVisited(curr_key, visited)
         /\ \E st \in {ForTuples([g     |-> [nodes |-> nodes, edges |-> edges],
                                  stack |-> SubSeq(stack, 1, Len(stack) - 1),
                                  calls |-> calls],
                                 curr_key, OldGraphGet(old_graph, curr_key), 1)} :
              /\ nodes' = st.g.nodes
              /\ edges' = st.g.edges
              /\ stack' = st.stack
              /\ calls' = st.calls
         /\ processed' = Append(processed, curr_key)
         /\ visited' = MarkVisited(curr_key, visited)
    /\ UNCHANGED <<old_graph, mig_pc>>
    /\ UNCHANGED <<whyVars, makeVars, dupVars>>
    /\ UNCHANGED findVars

\* the worklist is empty: the loop ends and the graph is serialized
MigrateFinish ==
    /\ mig_pc = "loop"
    /\ stack = <<>>
    /\ mig_pc' = "done"
    /\ UNCHANGED <<nodes, edges, old_graph, stack, visited, processed, calls>>
    /\ UNCHANGED <<whyVars, makeVars, dupVars>>
    /\ UNCHANGED findVars

MigrateNext == MigrateLoad \/ MigrateSkip \/ MigrateProcess \/ MigrateFinish

\* migrate_graph on every legacy file of the model; the loop is sequential code
\* that always takes its next turn
SpecMigrate == MigrateInit /\ [][MigrateNext]_vars /\ WF_vars(MigrateNext)

-----------------------------------------------------------------------------
(* why / find_why: the provenance explainer *)

\* the package names and requirement types of the graphs the explainer reads
WhyNames == {<<"a">>, <<"b">>}
WhyTypes == {INSTALL, BUILD}

\* the --depth values and --requirement-type lists the command is given
WhyDepths  == {-1, 0, 1, 2}
WhyFilters == {<<>>, <<BUILD>>}

\* DependencyGraph.get_nodes_by_name: the nodes of that canonical name, in order
NodesByName(ns, name) ==
    LET T(k) == k # ROOT /\ Partition(k)[1] = canonicalize_name(name)
    IN  SelectSeq(ns, T)

\* DependencyNode.canonicalized_name
NodeName(key) == Partition(key)[1]

\* find_why(graph, node, max_depth, depth, req_type) is entered
Frame(node, depth, req_type) ==
    [node |-> node, depth |-> depth, req_type |-> req_type,
     idx |-> 1, all_skipped |-> TRUE, is_toplevel |-> FALSE]

\* a printed line; depth is that of the invocation that printed it
Line(kind, f, parent_edge) ==
    [kind |-> kind, node |-> f.node, depth |-> f.depth, filter |-> f.req_type,
     req_type |-> parent_edge.req_type, parent |-> parent_edge.parent,
     req |-> parent_edge.req]

NoEdge == [req_type |-> "", parent |-> ROOT, req |-> Requirement(<<>>)]

\* if req_type and parent.req_type not in req_type: continue
EdgeFiltered(req_type, edge_type) ==
    req_type # <<>> /\ ~SeqContains(req_type, edge_type)

\* (mutation) the depth test off by one
ShouldRecurseOffByOne(max_depth, depth) ==
    max_depth # 0 /\ (max_depth = -1 \/ depth <= max_depth + 1)

\* if max_depth and (max_depth == -1 or depth <= max_depth)
ShouldRecurse(max_depth, depth) ==
    max_depth # 0 /\ (max_depth = -1 \/ depth <= max_depth)

\* (mutation) the filter handed on to the ancestors
RecursiveFilterKept(req_type) == req_type

\* the req_type argument of the recursive call: []
RecursiveFilter(req_type) == <<>>

\* (mutation) the toplevel flag forgotten
ReportsNoPathIgnoringToplevel(all_skipped, is_toplevel) == all_skipped

\* if all_skipped and not is_toplevel
ReportsNoPath(all_skipped, is_toplevel) == all_skipped /\ ~is_toplevel

Top == why_stack[Len(why_stack)]

TopParents == Parents(edges, Top.node)

\* the edge the innermost invocation's for loop is at
TopEdge == TopParents[Top.idx]

\* the call stack with the innermost frame replaced
WithTop(f) == [why_stack EXCEPT ![Len(why_stack)] = f]

WhyInit ==
    /\ MigIdle /\ MakeIdle /\ DupIdle
    /\ nodes = EmptyGraph.nodes
    /\ edges = EmptyGraph.edges
    /\ why_args = [max_depth |-> 0, req_type |-> <<>>, todo |-> <<>>]
    /\ why_stack = <<>>
    /\ why_out = <<>>
    /\ why_pc = "build"
    /\ FindIdle

\* the bootstrap records one more dependency in the graph the command will
\* read: a toplevel package, or one package requiring the other
WhyAddDependency ==
    /\ why_pc = "build"
    /\ Len(edges) < MaxEdges
    /\ \E p \in WhyNames \cup {NoName}, c \in WhyNames, t \in WhyTypes :
         /\ p # c
         /\ \E g \in {add_dependency([nodes |-> nodes, edges |-> edges], p,
                                  IF p = NoName THEN NoVersion ELSE 1,
                                  t, 1, Requirement(c))} :
              /\ nodes' = g.nodes
              /\ edges' = g.edges
    /\ UNCHANGED <<whyVars, migVars, makeVars, dupVars>>
    /\ UNCHANGED findVars

\* why(graph_file, package_name, depth, requirement_type): the nodes are looked up
WhyStart ==
    /\ why_pc = "build"
    /\ \E name \in WhyNames, d \in WhyDepths, rt \in WhyFilters :
         why_args' = [max_depth |-> d, req_type |-> rt,
                      todo |-> NodesByName(nodes, name)]
    /\ why_pc' = "run"
    /\ UNCHANGED <<why_stack, why_out, graphVars, migVars, makeVars, dupVars>>
    /\ UNCHANGED findVars

\* for node in package_nodes: print its key and call find_why at depth 1
WhyNextNode ==
    /\ why_pc = "run"
    /\ why_stack = <<>>
    /\ why_args.todo # <<>>
    /\ \E f \in {Frame(Head(why_args.todo), 1, why_args.req_type)} :
         /\ why_stack' = <<f>>
         /\ why_out' = Append(why_out, Line("header", f, NoEdge))
    /\ why_args' = [why_args EXCEPT !.todo = Tail(@)]
    /\ UNCHANGED <<why_pc, graphVars, migVars, makeVars, dupVars>>
    /\ UNCHANGED findVars

\* the parent is ROOT: is_toplevel, the line is printed, continue
WhyToplevel ==
    /\ why_pc = "run"
    /\ why_stack # <<>>
    /\ Top.idx <= Len(TopParents)
    /\ TopEdge.parent = ROOT
    /\ why_out' = Append(why_out, Line("toplevel", Top, TopEdge))
    /\ why_stack' = WithTop([Top EXCEPT !.idx = @ + 1, !.is_toplevel = TRUE])
    /\ UNCHANGED <<why_args, why_pc, graphVars, migVars, makeVars, dupVars>>
    /\ UNCHANGED findVars

\* the edge's type is excluded by the filter: continue
WhySkipFiltered ==
    /\ why_pc = "run"
    /\ why_stack # <<>>
    /\ Top.idx <= Len(TopParents)
    /\ TopEdge.parent # ROOT
    /\ EdgeFiltered(Top.req_type, TopEdge.req_type)
    /\ why_stack' = WithTop([Top EXCEPT !.idx = @ + 1])
    /\ UNCHANGED <<why_args, why_out, why_pc, graphVars, migVars, makeVars, dupVars>>
    /\ UNCHANGED findVars

\* the relationship is printed and the depth budget is used up: next edge
WhyReport ==
    /\ why_pc = "run"
    /\ why_stack # <<>>
    /\ Top.idx <= Len(TopParents)
    /\ TopEdge.parent # ROOT
    /\ ~EdgeFiltered(Top.req_type, TopEdge.req_type)
    /\ ~ShouldRecurse(why_args.max_depth, Top.depth)
    /\ why_out' = Append(why_out, Line("dep", Top, TopEdge))
    /\ why_stack' = WithTop([Top EXCEPT !.idx = @ + 1, !.all_skipped = FALSE])
    /\ UNCHANGED <<why_args, why_pc, graphVars, migVars, makeVars, dupVars>>
    /\ UNCHANGED findVars

\* the relationship is printed and find_why is called on the parent
WhyRecurse ==
    /\ why_pc = "run"
    /\ why_stack # <<>>
    /\ Top.idx <= Len(TopParents)
    /\ TopEdge.parent # ROOT
    /\ ~EdgeFiltered(Top.req_type, TopEdge.req_type)
    /\ ShouldRecurse(why_args.max_depth, Top.depth)
    /\ Len(why_stack) < RecursionLimit
    /\ why_out' = Append(why_out, Line("dep", Top, TopEdge))
    /\ why_stack' = Append(WithTop([Top EXCEPT !.idx = @ + 1, !.all_skipped = FALSE]),
                           Frame(TopEdge.parent, Top.depth + 1,
                                 RecursiveFilter(Top.req_type)))
    /\ UNCHANGED <<why_args, why_pc, graphVars, migVars, makeVars, dupVars>>
    /\ UNCHANGED findVars

\* the relationship is printed and the call of find_why exceeds the
\* interpreter's recursion limit: RecursionError ends the command
WhyRecursionError ==
    /\ why_pc = "run"
    /\ why_stack # <<>>
    /\ Top.idx <= Len(TopParents)
    /\ TopEdge.parent # ROOT
    /\ ~EdgeFiltered(Top.req_type, TopEdge.req_type)
    /\ ShouldRecurse(why_args.max_depth, Top.depth)
    /\ Len(why_stack) >= RecursionLimit
    /\ why_out' = Append(why_out, Line("dep", Top, TopEdge))
    /\ why_stack' = <<>>
    /\ why_pc' = "RecursionError"
    /\ UNCHANGED <<why_args, graphVars, migVars, makeVars, dupVars>>
    /\ UNCHANGED findVars

\* the for loop of the innermost invocation is over: the closing report, return
WhyReturn ==
    /\ why_pc = "run"
    /\ why_stack # <<>>
    /\ Top.idx > Len(TopParents)
    /\ why_out' = IF ReportsNoPath(Top.all_skipped, Top.is_toplevel)
                  THEN Append(why_out, Line("nomatch", Top, NoEdge))
                  ELSE why_out
    /\ why_stack' = SubSeq(why_stack, 1, Len(why_stack) - 1)
    /\ UNCHANGED <<why_args, why_pc, graphVars, migVars, makeVars, dupVars>>
    /\ UNCHANGED findVars

\* every node of package_nodes has been explained
WhyFinish ==
    /\ why_pc = "run"
    /\ why_stack = <<>>
    /\ why_args.todo = <<>>
    /\ why_pc' = "done"
    /\ UNCHANGED <<why_args, why_stack, why_out, graphVars, migVars, makeVars, dupVars>>
    /\ UNCHANGED findVars

WhyNext ==
    \/ WhyAddDependency
    \/ WhyStart
    \/ WhyNextNode
    \/ WhyToplevel
    \/ WhySkipFiltered
    \/ WhyReport
    \/ WhyRecurse
    \/ WhyRecursionError
    \/ WhyReturn
    \/ WhyFinish

\* the why command on every graph of the model
SpecWhy == WhyInit /\ [][WhyNext]_vars

-----------------------------------------------------------------------------
(* MakeNode and to_makefile: the build-plan export *)

Str__        == <<"_", "_">>
Str__build   == <<"_", "_", "b", "u", "i", "l", "d">>
Str__wheel   == <<"_", "_", "w", "h", "e", "e", "l">>
Str__install == <<"_", "_", "i", "n", "s", "t", "a", "l", "l">>
StrAll       == <<"a", "l", "l">>

\* DependencyNode.version
NodeVersion(key) == Version(Partition(key)[3])

\* MakeNode(target_name, command=command): no dependencies yet
MakeNode(target_name, command) ==
    [target_name |-> target_name, command |-> command, dependencies |-> <<>>]

\* MakeNode.add_dependency
MakeAddDependency(mn, other) ==
    [mn EXCEPT !.dependencies = Append(@, other)]

\* f"{node.canonicalized_name}__{node.version}"
TargetName(key) == NodeName(key) \o Str__ \o VersionStr(NodeVersion(key))

\* the command of the wheel node: fromager build ... <name> <version> ...
BuildCommand(key) == <<"fromager build", NodeName(key), NodeVersion(key)>>

\* if child_edge.req_type == RequirementType.BUILD
IsBuildEdge(req_type) == req_type = BUILD

RECURSIVE AddChildren(_, _, _, _)
\* the for loop over node.children, from child i on: children[i] is the
\* MakeNode made for the i-th child edge
AddChildren(pair, child_edges, children, i) ==
    IF i > Len(child_edges) THEN pair
    ELSE AddChildren(
            IF IsBuildEdge(child_edges[i].req_type)
            THEN [pair EXCEPT !.build_node = MakeAddDependency(@, children[i])]
            ELSE [pair EXCEPT !.install_node = MakeAddDependency(@, children[i])],
            child_edges, children, i + 1)

\* the tail of from_graph_node: the three stages hung under the node's target
Assemble(mn, wheel_node, pair) ==
    LET m1 == IF pair.build_node.dependencies # <<>>
              THEN MakeAddDependency(mn, pair.build_node) ELSE mn
        m2 == MakeAddDependency(m1, wheel_node)
    IN  IF pair.install_node.dependencies # <<>>
        THEN MakeAddDependency(m2, pair.install_node) ELSE m2

NoMakeNode == MakeNode(<<>>, <<>>)

RECURSIVE FromGraphNode(_, _, _)
\* MakeNode.from_graph_node(node), entered with depth - 1 of its own frames on
\* the stack: the rule tree of the node, or the RecursionError the
\* interpreter raises when the frames exceed its limit
FromGraphNode(es, key, depth) ==
    IF depth > RecursionLimit THEN [ok |-> FALSE, mn |-> NoMakeNode]
    ELSE LET child_edges == Children(es, key)
             results == [i \in 1..Len(child_edges) |->
                            FromGraphNode(es, child_edges[i].child, depth + 1)]
             target_name == TargetName(key)
         IN  IF \E i \in 1..Len(child_edges) : ~results[i].ok
             THEN [ok |-> FALSE, mn |-> NoMakeNode]
             ELSE [ok |-> TRUE,
                   mn |-> Assemble(
                            MakeNode(target_name, <<>>),
                            MakeNode(target_name \o Str__wheel, BuildCommand(key)),
                            AddChildren(
                              [build_node   |-> MakeNode(target_name \o Str__build, <<>>),
                               install_node |-> MakeNode(target_name \o Str__install, <<>>)],
                              child_edges,
                              [i \in 1..Len(child_edges) |-> results[i].mn],
                              1))]

RECURSIVE DependencyNames(_, _, _)
\* the unique list of dependency names, in the order of the dependencies
DependencyNames(deps, i, names) ==
    IF i > Len(deps) THEN names
    ELSE DependencyNames(deps, i + 1, AppendNew(names, deps[i].target_name))

\* (mutation) the seen set never consulted
AlreadyEmittedNever(target_name, seen) == FALSE

\* if self.target_name in seen: return ""
AlreadyEmitted(target_name, seen) == target_name \in seen

RECURSIVE Format(_, _)
RECURSIVE FormatDependencies(_, _, _)
\* MakeNode.format(seen): the rule blocks it returns and the seen set after it
Format(mn, seen) ==
    IF AlreadyEmitted(mn.target_name, seen) THEN [rules |-> <<>>, seen |-> seen]
    ELSE FormatDependencies(
            mn.dependencies, 1,
            [rules |-> <<[target |-> mn.target_name,
                          deps |-> DependencyNames(mn.dependencies, 1, <<>>),
                          command |-> mn.command]>>,
             seen |-> seen \cup {mn.target_name}])

\* rules.extend(d.format(seen) for d in self.dependencies), from dependency i on
FormatDependencies(deps, i, acc) ==
    IF i > Len(deps) THEN acc
    ELSE LET r == Format(deps[i], acc.seen)
         IN  FormatDependencies(deps, i + 1,
                                [rules |-> acc.rules \o r.rules, seen |-> r.seen])

RECURSIVE RootChildren(_, _, _, _)
\* the for loop of to_makefile over the root node's children, from child i on
RootChildren(es, root_edges, i, top) ==
    IF i > Len(root_edges) THEN [ok |-> TRUE, mn |-> top]
    ELSE LET child == FromGraphNode(es, root_edges[i].child, 1)
         IN  IF ~child.ok THEN [ok |-> FALSE, mn |-> NoMakeNode]
             ELSE RootChildren(es, root_edges, i + 1, MakeAddDependency(top, child.mn))

\* top = MakeNode("all"), once to_makefile has added every child of the root node
TopNode(es) == RootChildren(es, Children(es, ROOT), 1, MakeNode(StrAll, <<>>))

\* the package names and the requirements of the graphs the export reads: the
\* toplevel packages a and b, both of which may require c, which may require a
MakeRequirers == {<<<<"a">>, <<"c">>>>, <<<<"b">>, <<"c">>>>, <<<<"c">>, <<"a">>>>}
MakeToplevel  == {<<"a">>, <<"b">>}
MakeTypes     == {INSTALL, BUILD, BUILD_SYSTEM}

MakeInit ==
    /\ MigIdle /\ WhyIdle /\ DupIdle
    /\ nodes = EmptyGraph.nodes
    /\ edges = EmptyGraph.edges
    /\ make_out = <<>>
    /\ make_pc = "build"
    /\ FindIdle

\* the bootstrap records a toplevel requirement in the graph the export will read
MakeAddToplevel ==
    /\ make_pc = "build"
    /\ Len(edges) < MaxMakeEdges
    /\ \E c \in MakeToplevel :
         \E g \in {add_dependency([nodes |-> nodes, edges |-> edges], NoName,
                                  NoVersion, TOP_LEVEL, 1, Requirement(c))} :
            /\ nodes' = g.nodes
            /\ edges' = g.edges
    /\ UNCHANGED <<makeVars, migVars, whyVars, dupVars>>
    /\ UNCHANGED findVars

\* the bootstrap records a requirement of one package on another
MakeAddRequirement ==
    /\ make_pc = "build"
    /\ Len(edges) < MaxMakeEdges
    /\ \E pc \in MakeRequirers, t \in MakeTypes :
         \E g \in {add_dependency([nodes |-> nodes, edges |-> edges], pc[1], 1,
                                  t, 1, Requirement(pc[2]))} :
            /\ nodes' = g.nodes
            /\ edges' = g.edges
    /\ UNCHANGED <<makeVars, migVars, whyVars, dupVars>>
    /\ UNCHANGED findVars

\* to_makefile: the rule tree is built and top.format(set()) is printed
MakeExport ==
    /\ make_pc = "build"
    /\ \E top \in {TopNode(edges)} :
         /\ top.ok
         /\ make_out' = Format(top.mn, {}).rules
    /\ make_pc' = "done"
    /\ UNCHANGED <<graphVars, migVars, whyVars, dupVars>>
    /\ UNCHANGED findVars

\* to_makefile: from_graph_node exceeds the recursion limit and nothing is printed
MakeRecursionError ==
    /\ make_pc = "build"
    /\ ~TopNode(edges).ok
    /\ make_pc' = "RecursionError"
    /\ UNCHANGED <<make_out, graphVars, migVars, whyVars, dupVars>>
    /\ UNCHANGED findVars

MakeNext ==
    \/ MakeAddToplevel
    \/ MakeAddRequirement
    \/ MakeExport
    \/ MakeRecursionError

\* the to_makefile command on every graph of the model
SpecMake == MakeInit /\ [][MakeNext]_vars

-----------------------------------------------------------------------------
(* explain_duplicates: conflict detection *)

\* the requirement types followed to find what gets installed
InstallClosureTypes == {INSTALL, TOP_LEVEL}

RECURSIVE InstallReach(_, _)
InstallReach(es, S) ==
    LET more == S \cup {es[i].child :
                          i \in {j \in 1..Len(es) : /\ es[j].parent \in S
                                                    /\ es[j].req_type \in InstallClosureTypes}}
    IN  IF more = S THEN S ELSE InstallReach(es, more)

\* DependencyGraph.get_install_dependencies: the nodes reachable from ROOT along
\* install-time edges, in the order the graph holds them
InstallDependencies(ns, es) ==
    LET T(k) == k # ROOT /\ k \in InstallReach(es, {ROOT})
    IN  SelectSeq(ns, T)

\* DependencyGraph.get_install_dependency_versions()[name]
InstallVersionsOf(ns, es, name) ==
    LET T(k) == NodeName(k) = name
    IN  SelectSeq(InstallDependencies(ns, es), T)

\* DependencyNode.get_incoming_install_edges
IncomingInstallEdges(es, key) ==
    LET T(e) == e.req_type = INSTALL
    IN  SelectSeq(Parents(es, key), T)

Alphabet == <<"a", "b", "c", "x">>

CharRank(c) == CHOOSE i \in 1..Len(Alphabet) : Alphabet[i] = c

RECURSIVE StrLess(_, _)
\* s < t for strings
StrLess(s, t) ==
    IF t = <<>> THEN FALSE
    ELSE IF s = <<>> THEN TRUE
    ELSE IF s[1] # t[1] THEN CharRank(s[1]) < CharRank(t[1])
    ELSE StrLess(Tail(s), Tail(t))

RECURSIVE SortedNames(_)
\* sorted(...) of package names: the names of the set S in ascending order
SortedNames(S) ==
    IF S = {} THEN <<>>
    ELSE LET m == CHOOSE x \in S : \A y \in S \ {x} : StrLess(x, y)
         IN  <<m>> \o SortedNames(S \ {m})

SeqRange(q) == {q[i] : i \in 1..Len(q)}

RECURSIVE SortedByVersionFrom(_)
SortedByVersionFrom(S) ==
    IF S = {} THEN <<>>
    ELSE LET m == CHOOSE x \in S : \A y \in S \ {x} : NodeVersion(x) < NodeVersion(y)
         IN  <<m>> \o SortedByVersionFrom(S \ {m})

\* sorted(nodes, key=lambda x: x.version)
SortedByVersion(keys) == SortedByVersionFrom(SeqRange(keys))

RECURSIVE ParentsByReq(_, _, _)
\* parents_by_req: for each distinct requirement, in the order first met, the
\* set of the keys of the parents that state it
ParentsByReq(in_edges, i, groups) ==
    IF i > Len(in_edges) THEN groups
    ELSE LET e == in_edges[i]
             at == {j \in 1..Len(groups) : groups[j].req = e.req}
         IN  ParentsByReq(in_edges, i + 1,
                IF at = {}
                THEN Append(groups, [req |-> e.req, parents |-> {e.parent}])
                ELSE [j \in 1..Len(groups) |->
                        IF j \in at
                        THEN [groups[j] EXCEPT !.parents = @ \cup {e.parent}]
                        ELSE groups[j]])

\* (mutation) the specifier tried on the version at hand only
MatchVersionsOfNodeOnly(req, versions, node_version) ==
    LET T(v) == Accepts(req, v) IN SelectSeq(<<node_version>>, T)

\* [str(v) for v in req.specifier.filter(versions)], for a requirement that
\* reaches the node of version node_version
MatchVersions(req, versions, node_version) ==
    LET T(v) == Accepts(req, v) IN SelectSeq(versions, T)

RECURSIVE ExtendUsers(_, _, _, _)
\* usable_versions.setdefault(mv, []).extend(parents) for every matching
\* version; of each list of users only the length is kept
ExtendUsers(usable, match_versions, i, n) ==
    IF i > Len(match_versions) THEN usable
    ELSE LET mv == VersionStr(match_versions[i])
             at == {j \in 1..Len(usable) : usable[j].version = mv}
         IN  ExtendUsers(
                IF at = {} THEN Append(usable, [version |-> mv, users |-> n])
                ELSE [j \in 1..Len(usable) |->
                        IF j \in at THEN [usable[j] EXCEPT !.users = @ + n]
                        ELSE usable[j]],
                match_versions, i + 1, n)

RECURSIVE ForGroups(_, _, _, _, _)
\* the for loop over parents_by_req.items(), from group i on
ForGroups(acc, groups, i, versions, node_version) ==
    IF i > Len(groups) THEN acc
    ELSE ForGroups(
            [user_counter |-> acc.user_counter + Cardinality(groups[i].parents),
             usable_versions |->
                ExtendUsers(acc.usable_versions,
                            MatchVersions(groups[i].req, versions, node_version),
                            1, Cardinality(groups[i].parents))],
            groups, i + 1, versions, node_version)

RECURSIVE ForVersionNodes(_, _, _, _, _)
\* the for loop over the nodes of one package, sorted by version, from node i on
ForVersionNodes(acc, es, sorted_nodes, i, versions) ==
    IF i > Len(sorted_nodes) THEN acc
    ELSE ForVersionNodes(
            ForGroups(acc,
                      ParentsByReq(IncomingInstallEdges(es, sorted_nodes[i]), 1, <<>>),
                      1, versions, NodeVersion(sorted_nodes[i])),
            es, sorted_nodes, i + 1, versions)

\* the for ... else that closes the report of one package: the first version
\* whose users are as many as user_counter, or none
Verdict(dep_name, acc) ==
    LET hits == {j \in 1..Len(acc.usable_versions) :
                    acc.usable_versions[j].users = acc.user_counter}
    IN  IF hits = {}
        THEN [name |-> dep_name, verdict |-> "none", version |-> <<>>]
        ELSE [name |-> dep_name, verdict |-> "usable",
              version |-> acc.usable_versions[CHOOSE j \in hits :
                                                \A k \in hits : j <= k].version]

RECURSIVE ForPackages(_, _, _, _, _)
\* the for loop over sorted(conflicts.items()), from name i on: the verdicts printed
ForPackages(out, ns, es, names, i) ==
    IF i > Len(names) THEN out
    ELSE LET keys == InstallVersionsOf(ns, es, names[i])
         IN  ForPackages(
                IF Len(keys) = 1 THEN out
                ELSE Append(out,
                        Verdict(names[i],
                                ForVersionNodes([user_counter |-> 0, usable_versions |-> <<>>],
                                                es, SortedByVersion(keys), 1,
                                                [j \in 1..Len(keys) |-> NodeVersion(keys[j])]))),
                ns, es, names, i + 1)

\* explain_duplicates: every verdict it prints, in order
ExplainDuplicates(ns, es) ==
    ForPackages(<<>>, ns, es,
                SortedNames({NodeName(k) : k \in SeqRange(InstallDependencies(ns, es))}),
                1)

\* the consumers, and the requirements on package x the graphs of the model
\* hold, each with the versions of x the resolver may have picked for it
DupConsumers == {<<"a">>, <<"b">>}
DupReqTexts  == {<<"x", "=", "=", "1">>, <<"x", "=", "=", "2">>, <<"x", ">", "=", "1">>}
DupVersions  == {1, 2}
DupTypes     == {INSTALL, BUILD}

\* the graph holding the two toplevel consumers
DupBaseGraph ==
    add_dependency(
        add_dependency(EmptyGraph, NoName, NoVersion, TOP_LEVEL, 1, Requirement(<<"a">>)),
        NoName, NoVersion, TOP_LEVEL, 1, Requirement(<<"b">>))

DupInit ==
    /\ MigIdle /\ WhyIdle /\ MakeIdle
    /\ nodes = DupBaseGraph.nodes
    /\ edges = DupBaseGraph.edges
    /\ dup_out = <<>>
    /\ dup_pc = "build"
    /\ FindIdle

\* the bootstrap records that a consumer requires x, resolved to a version
\* that the requirement accepts
DupAddRequirement ==
    /\ dup_pc = "build"
    /\ Len(edges) < Len(DupBaseGraph.edges) + MaxDupEdges
    /\ \E p \in DupConsumers, r \in DupReqTexts, t \in DupTypes :
       \E v \in {w \in DupVersions : Accepts(Requirement(r), w)} :
         \E g \in {add_dependency([nodes |-> nodes, edges |-> edges], p, 1,
                                  t, v, Requirement(r))} :
            /\ nodes' = g.nodes
            /\ edges' = g.edges
    /\ UNCHANGED <<dupVars, migVars, whyVars, makeVars>>
    /\ UNCHANGED findVars

\* explain_duplicates runs on the graph
DupExplain ==
    /\ dup_pc = "build"
    /\ dup_out' = ExplainDuplicates(nodes, edges)
    /\ dup_pc' = "done"
    /\ UNCHANGED <<graphVars, migVars, whyVars, makeVars>>
    /\ UNCHANGED findVars

DupNext == DupAddRequirement \/ DupExplain

\* the explain_duplicates command on every graph of the model
SpecDup == DupInit /\ [][DupNext]_vars

-----------------------------------------------------------------------------
(* mirror_builder: _find_sdist and _find_source_dir *)

\* re.UNICODE, which _dist_name_to_filename hands re.sub in the place of count
RE_UNICODE == 32

\* the characters of the model that \w or \d match
WordChars == {"a", "b", "c", "x", "A", "B", "C", "X", "_",
              "0", "1", "2", "3", "4", "5", "6", "7", "8", "9"}

\* the characters [^\w\d.] does not match
IsWordOrDot(c) == c \in WordChars \cup {"."}

RECURSIVE RunEnd(_, _)
\* the first index at or after i where s has a character of \w\d. , Len(s) + 1 if none
RunEnd(s, i) ==
    IF i > Len(s) \/ IsWordOrDot(s[i]) THEN i ELSE RunEnd(s, i + 1)

RECURSIVE SubNonWord(_, _, _)
\* re.sub(r"[^\w\d.]+", "_", s, count), from index i on: each of the first
\* count runs of other characters becomes one "_"
SubNonWord(s, i, count) ==
    IF i > Len(s) THEN <<>>
    ELSE IF IsWordOrDot(s[i]) \/ count = 0
         THEN <<s[i]>> \o SubNonWord(s, i + 1, count)
         ELSE <<"_">> \o SubNonWord(s, RunEnd(s, i), count - 1)

\* _dist_name_to_filename
dist_name_to_filename(dist_name) ==
    Only({SubNonWord(c, 1, RE_UNICODE) : c \in {canonicalize_name(dist_name)}})

\* str.lower
LowerStr(s) == [i \in 1..Len(s) |-> Lower(s[i])]

TarGz == <<".", "t", "a", "r", ".", "g", "z">>
Dash  == <<"-">>

\* candidate_bases of _find_sdist (suffix ".tar.gz") and of _find_source_dir
\* (no suffix), in the order of the list
CandidateBases(name, dist_version, suffix) ==
    << dist_name_to_filename(name) \o Dash \o dist_version \o suffix,
       canonicalize_name(name) \o Dash \o dist_version \o suffix,
       name \o Dash \o dist_version \o suffix >>

\* the inner for loop: some base equals the entry's name, case ignored
MatchesAnyBase(entry, candidate_bases) ==
    \E j \in 1..Len(candidate_bases) : LowerStr(entry) = LowerStr(candidate_bases[j])

RECURSIVE GlobLoop(_, _, _)
\* the for loop over glob('*'), from entry i on: the index of the entry that
\* is returned, 0 when the loop ends without a return
GlobLoop(entries, candidate_bases, i) ==
    IF i > Len(entries) THEN 0
    ELSE IF MatchesAnyBase(entries[i], candidate_bases) THEN i
    ELSE GlobLoop(entries, candidate_bases, i + 1)

\* pathlib.Path.exists, for a name directly under the directory
Exists(entries, name) == SeqContains(entries, name)

NoPath == <<>>

\* _find_sdist: the name under downloads_dir that is returned, or the error.
\* override is the name expected_source_archive_name gives, NoName when the
\* package has no such override method
find_sdist(entries, name, dist_version, override) ==
    IF override # NoName
    THEN IF Exists(entries, override)
         THEN [raised |-> FALSE, path |-> <<override>>]
         ELSE [raised |-> TRUE, path |-> NoPath]
    ELSE LET i == GlobLoop(entries, CandidateBases(name, dist_version, TarGz), 1)
         IN  IF i # 0 THEN [raised |-> FALSE, path |-> <<entries[i]>>]
             ELSE [raised |-> TRUE, path |-> NoPath]

\* sdist_name_func(req, dist_version)[:-len('.tar.gz')]
StripTarGz(archive_name) == SubSeq(archive_name, 1, Len(archive_name) - Len(TarGz))

\* _find_source_dir: the path under work_dir that is returned (the unpack
\* directory and, in it, the directory of the same name), or the error. A
\* directory listed in work_dir holds a directory of its own name.
find_source_dir(entries, name, dist_version, override) ==
    IF override # NoName
    THEN IF Exists(entries, StripTarGz(override))
         THEN [raised |-> FALSE, path |-> <<StripTarGz(override), StripTarGz(override)>>]
         ELSE [raised |-> TRUE, path |-> NoPath]
    ELSE LET i == GlobLoop(entries, CandidateBases(name, dist_version, <<>>), 1)
         IN  IF i # 0 THEN [raised |-> FALSE, path |-> <<entries[i], entries[i]>>]
             ELSE [raised |-> TRUE, path |-> NoPath]

\* the distribution names asked for, the version, and the names a directory may hold
FindNames    == {<<"A", ".", "b">>, <<"a", "-", "b">>, <<"c">>}
FindVersion  == <<"1">>
FindStems    == {<<"a", "_", "b", "-", "1">>, <<"a", "-", "b", "-", "1">>,
                 <<"A", ".", "b", "-", "1">>, <<"A", "_", "B", "-", "1">>,
                 <<"c", "-", "1">>}
FindEntries  == FindStems \cup {stem \o TarGz : stem \in FindStems}
FindOverrides == {NoName, <<"a", "_", "b", "-", "1">> \o TarGz}

FindInit ==
    /\ MigIdle /\ WhyIdle /\ MakeIdle /\ DupIdle
    /\ nodes = EmptyGraph.nodes
    /\ edges = EmptyGraph.edges
    /\ listing = <<>>
    /\ find_args = <<>>
    /\ find_out = <<>>
    /\ find_pc = "setup"

\* the directory gets one more entry; glob yields the entries in an order of
\* the file system's choosing, here the order in which they are added
FindAddEntry ==
    /\ find_pc = "setup"
    /\ Len(listing) < MaxEntries
    /\ \E e \in FindEntries :
         /\ ~SeqContains(listing, e)
         /\ listing' = Append(listing, e)
    /\ UNCHANGED <<find_args, find_out, find_pc>>
    /\ UNCHANGED <<graphVars, migVars, whyVars, makeVars, dupVars>>

\* do_prepare_source calls _find_sdist
FindSdist ==
    /\ find_pc = "setup"
    /\ \E name \in FindNames, override \in FindOverrides :
         \E r \in {find_sdist(listing, name, FindVersion, override)} :
            /\ find_args' = [func |-> "_find_sdist", name |-> name, override |-> override]
            /\ find_out' = r.path
            /\ find_pc' = IF r.raised THEN "RuntimeError" ELSE "done"
    /\ UNCHANGED listing
    /\ UNCHANGED <<graphVars, migVars, whyVars, makeVars, dupVars>>

\* do_prepare_build / do_build call _find_source_dir
FindSourceDir ==
    /\ find_pc = "setup"
    /\ \E name \in FindNames, override \in FindOverrides :
         \E r \in {find_source_dir(listing, name, FindVersion, override)} :
            /\ find_args' = [func |-> "_find_source_dir", name |-> name, override |-> override]
            /\ find_out' = r.path
            /\ find_pc' = IF r.raised THEN "RuntimeError" ELSE "done"
    /\ UNCHANGED listing
    /\ UNCHANGED <<graphVars, migVars, whyVars, makeVars, dupVars>>

FindNext == FindAddEntry \/ FindSdist \/ FindSourceDir

\* the two lookups on every directory of the model
SpecFind == FindInit /\ [][FindNext]_vars

-----------------------------------------------------------------------------
(* Properties of why / find_why *)

\* the filter in force in an invocation at that depth, as the command line
\* gives it: the requested one for the queried node, none above it
FilterInForce(depth) == IF depth = 1 THEN why_args.req_type ELSE <<>>

\* the innermost invocation is about to examine an edge
Examining == why_pc = "run" /\ why_stack # <<>> /\ Top.idx <= Len(TopParents)

\* the innermost invocation has examined its last edge and is about to return
Returning == why_pc = "run" /\ why_stack # <<>> /\ Top.idx > Len(TopParents)

LastLine(out) == out[Len(out)]

\* C3: with max_depth = 0 there is no recursive call and only the queried
\* node's direct parents are reported; with max_depth = N > 0 the recursive
\* calls never nest deeper than N above the initial call
C3_DepthBounded ==
    why_args.max_depth >= 0 =>
        /\ Len(why_stack) <= why_args.max_depth + 1
        /\ \A i \in 1..Len(why_stack) : why_stack[i].depth = i
        /\ \A i \in 1..Len(why_out) : why_out[i].depth <= why_args.max_depth + 1

\* max_depth = 1 has cut a chain: a relationship one hop above the direct
\* parents was reported whose requiring node has parents of its own
C3_Witness ==
    /\ why_pc = "done"
    /\ why_args.max_depth = 1
    /\ \E i \in 1..Len(why_out) :
         /\ why_out[i].kind = "dep"
         /\ why_out[i].depth = 2
         /\ Parents(edges, why_out[i].parent) # <<>>

\* max_depth = 0 has reported a direct parent that has parents of its own
C3_WitnessZero ==
    /\ why_pc = "done"
    /\ why_args.max_depth = 0
    /\ \E i \in 1..Len(why_out) :
         /\ why_out[i].kind = "dep"
         /\ Parents(edges, why_out[i].parent) # <<>>

\* C4: with max_depth = -1 the traversal completes on every graph: it never
\* ends in an error, and when it has ended every reported requiring node has
\* been explained in turn
C4_UnlimitedWhyCompletes ==
    why_args.max_depth = -1 =>
        /\ why_pc # "RecursionError"
        /\ why_pc = "done" =>
              \A i \in 1..Len(why_out) :
                  why_out[i].kind = "dep" =>
                      \E j \in 1..Len(why_out) :
                          /\ why_out[j].node = why_out[i].parent
                          /\ why_out[j].depth = why_out[i].depth + 1

\* with max_depth = -1 and no cycle every chain is followed up to ROOT
C4_WitnessAcyclic ==
    /\ why_pc = "done"
    /\ why_args.max_depth = -1
    /\ \E i, j \in 1..Len(why_out) :
         /\ why_out[i].kind = "dep" /\ why_out[i].depth = 1
         /\ why_out[j].kind = "toplevel" /\ why_out[j].depth = 2

\* C6: a ROOT parent is reported as toplevel and never descended into, whatever
\* the filter; a non-ROOT edge of the queried node whose type the filter
\* excludes is neither reported nor descended into; every other edge, and so
\* every edge examined in a recursive call, is reported
C6_FilterOnlyFirstHop ==
    [][Examining =>
         IF TopEdge.parent = ROOT
         THEN /\ Len(why_out') = Len(why_out) + 1
              /\ LastLine(why_out').kind = "toplevel"
              /\ LastLine(why_out').node = Top.node
              /\ Len(why_stack') = Len(why_stack)
         ELSE IF /\ Top.depth = 1
                 /\ why_args.req_type # <<>>
                 /\ ~SeqContains(why_args.req_type, TopEdge.req_type)
         THEN /\ why_out' = why_out
              /\ Len(why_stack') = Len(why_stack)
         ELSE /\ Len(why_out') = Len(why_out) + 1
              /\ LastLine(why_out').kind = "dep"
              /\ LastLine(why_out').req_type = TopEdge.req_type
              /\ LastLine(why_out').parent = TopEdge.parent]_vars

\* with the filter [build], an install edge of the queried node was passed over
\* and an install edge one hop above was reported
C6_Witness ==
    /\ why_pc = "done"
    /\ why_args.req_type = <<BUILD>>
    /\ \E i, j \in 1..Len(why_out) :
         /\ why_out[i].kind = "header"
         /\ \E k \in 1..Len(edges) :
              /\ edges[k].child = why_out[i].node
              /\ edges[k].parent # ROOT
              /\ edges[k].req_type = INSTALL
         /\ why_out[j].kind = "dep" /\ why_out[j].depth = 2
         /\ why_out[j].req_type = INSTALL
    /\ \A i \in 1..Len(why_out) :
         (why_out[i].kind = "dep" /\ why_out[i].depth = 1) => why_out[i].req_type = BUILD

\* no incoming edge of the node is a ROOT edge and none survives the filter
NoSurvivingEdge(node, filter) ==
    \A i \in 1..Len(Parents(edges, node)) :
        /\ Parents(edges, node)[i].parent # ROOT
        /\ filter # <<>>
        /\ ~SeqContains(filter, Parents(edges, node)[i].req_type)

\* C10: 'no matching provenance path' is printed exactly when an invocation
\* returns whose node has no ROOT parent and no non-ROOT parent edge that
\* survives the filter in force for it
C10_NoPathReportedExactly ==
    [][(/\ Len(why_out') = Len(why_out) + 1
        /\ LastLine(why_out').kind = "nomatch")
       <=> (Returning /\ NoSurvivingEdge(Top.node, FilterInForce(Top.depth)))]_vars

\* the report was printed for a queried node all of whose parents the filter
\* excludes, and (in another invocation) not for a node with a ROOT parent
C10_Witness ==
    /\ why_pc = "done"
    /\ why_args.req_type = <<BUILD>>
    /\ \E i \in 1..Len(why_out) :
         /\ why_out[i].kind = "nomatch"
         /\ why_out[i].depth = 1
         /\ Parents(edges, why_out[i].node) # <<>>

\* a node with a ROOT parent and excluded edges besides: nothing is reported missing
C10_WitnessToplevel ==
    /\ why_pc = "done"
    /\ why_args.req_type = <<BUILD>>
    /\ Len(edges) = 2
    /\ edges[1].parent = ROOT /\ edges[1].req_type = INSTALL
    /\ edges[2].child = edges[1].child /\ edges[2].req_type = INSTALL
    /\ why_out # <<>>
    /\ why_out[1].node = edges[1].child
    /\ \A i \in 1..Len(why_out) : why_out[i].kind # "nomatch"

-----------------------------------------------------------------------------
(* Properties of the build-plan export *)

RECURSIVE TreeTargets(_)
\* every target name of a rule tree
TreeTargets(mn) ==
    {mn.target_name} \cup
    UNION {TreeTargets(mn.dependencies[i]) : i \in 1..Len(mn.dependencies)}

\* the positions of the rule blocks printed for a target
BlocksOf(target) == {i \in 1..Len(make_out) : make_out[i].target = target}

\* C2: on an acyclic graph every target name of the rule tree gets exactly one
\* rule block, and every name in a dependency list has a rule block
C2_OneBlockPerTarget ==
    make_pc = "done" =>
        /\ \A t \in TreeTargets(TopNode(edges).mn) : Cardinality(BlocksOf(t)) = 1
        /\ \A i \in 1..Len(make_out) :
              /\ Cardinality(BlocksOf(make_out[i].target)) = 1
              /\ \A k \in 1..Len(make_out[i].deps) : BlocksOf(make_out[i].deps[k]) # {}

KeyA1 == NodeKey(<<"a">>, 1)
KeyB1 == NodeKey(<<"b">>, 1)
KeyC1 == NodeKey(<<"c">>, 1)

\* the diamond: a stage of a and a stage of b both list c, and c has one block
C2_Witness ==
    /\ make_pc = "done"
    /\ Cardinality(BlocksOf(TargetName(KeyC1))) = 1
    /\ \E i, j \in 1..Len(make_out) :
         /\ make_out[i].target \in {TargetName(KeyA1) \o Str__build,
                                    TargetName(KeyA1) \o Str__install}
         /\ make_out[j].target \in {TargetName(KeyB1) \o Str__build,
                                    TargetName(KeyB1) \o Str__install}
         /\ SeqContains(make_out[i].deps, TargetName(KeyC1))
         /\ SeqContains(make_out[j].deps, TargetName(KeyC1))

\* the requirement types needed only to build a package
BuildTypes == {BUILD, BUILD_SYSTEM, BUILD_BACKEND}

RECURSIVE GraphReach(_, _)
\* the nodes reachable from those of S along the edges
GraphReach(es, S) ==
    LET more == S \cup {es[i].child : i \in {j \in 1..Len(es) : es[j].parent \in S}}
    IN  IF more = S THEN S ELSE GraphReach(es, more)

\* the named nodes the export walks
ExportedNodes == GraphReach(edges, {ROOT}) \ {ROOT}

RECURSIVE UniqueTargets(_, _, _)
UniqueTargets(child_edges, i, names) ==
    IF i > Len(child_edges) THEN names
    ELSE UniqueTargets(child_edges, i + 1,
                       AppendNew(names, TargetName(child_edges[i].child)))

\* the targets of the children of a node reached through edges of those types,
\* each once, in the order of the edges
ChildTargets(key, types) ==
    LET T(e) == e.req_type \in types
    IN  UniqueTargets(SelectSeq(Children(edges, key), T), 1, <<>>)

\* C7: the wheel target of a node lists the node's build target exactly when
\* the node has a build-type child
C7_WheelWaitsForBuildStage ==
    make_pc = "done" =>
        \A key \in ExportedNodes :
            \A i \in BlocksOf(TargetName(key) \o Str__wheel) :
                SeqContains(make_out[i].deps, TargetName(key) \o Str__build)
                    <=> (ChildTargets(key, BuildTypes) # <<>>)

\* C8: the build stage lists exactly the children reached through build-type
\* edges, the install stage exactly those reached through the other edges;
\* each of the two is present only when non-empty, the wheel stage always
C8_StagesSplitByType ==
    make_pc = "done" =>
        \A key \in ExportedNodes :
            LET build_deps   == ChildTargets(key, BuildTypes)
                install_deps == ChildTargets(key, RequirementType \ BuildTypes)
            IN  /\ BlocksOf(TargetName(key) \o Str__wheel) # {}
                /\ (BlocksOf(TargetName(key) \o Str__build) # {}) <=> (build_deps # <<>>)
                /\ (BlocksOf(TargetName(key) \o Str__install) # {}) <=> (install_deps # <<>>)
                /\ \A i \in BlocksOf(TargetName(key) \o Str__build) :
                      make_out[i].deps = build_deps
                /\ \A i \in BlocksOf(TargetName(key) \o Str__install) :
                      make_out[i].deps = install_deps

\* the named nodes reachable from ROOT lie on no cycle of requirements
ExportAcyclic ==
    \A key \in ExportedNodes :
        key \notin GraphReach(edges, {edges[i].child :
                                        i \in {j \in 1..Len(edges) : edges[j].parent = key}})

\* C12: the derivation of the build plan ends with a rule tree on every graph
\* add_dependency can build, cycles among named nodes included: it never ends
\* in an error, and the tree printed has the wheel target of every node walked
C12_ExportEndsWithRuleTree ==
    /\ make_pc # "RecursionError"
    /\ make_pc = "done" =>
          \A key \in ExportedNodes : BlocksOf(TargetName(key) \o Str__wheel) # {}

\* on a graph without a cycle (a build-requires c) the rule tree is printed
C12_WitnessAcyclic ==
    /\ make_pc = "done"
    /\ ExportAcyclic
    /\ \E i \in 1..Len(edges) :
         /\ edges[i].parent = KeyA1 /\ edges[i].child = KeyC1 /\ edges[i].req_type = BUILD
    /\ BlocksOf(TargetName(KeyC1) \o Str__wheel) # {}

-----------------------------------------------------------------------------
(* Properties of migrate_graph *)

\* C1: migration terminates for every finite legacy mapping, cyclic ones
\* included, and no key has its adjacency tuples iterated more than once,
\* however often it is pushed
C1_MigrationTerminatesOncePerKey ==
    /\ <>(mig_pc = "done")
    /\ [](\A i, j \in 1..Len(processed) : processed[i] = processed[j] => i = j)

\* ROOT -> a==1 -> B==2 -> a==1: a==1 was pushed twice and the run has ended
C1_Witness ==
    /\ mig_pc = "done"
    /\ old_graph[ROOT] = <<TupleA>>
    /\ old_graph[KeyA] = <<TupleB>>
    /\ old_graph[KeyB] = <<TupleA>>
    /\ processed = <<ROOT, KeyA, KeyB>>
    /\ Len(calls) = 3

\* '<req_name>==<req_version>', as the claim writes the child key
ReconstructedKey(t) == t[2] \o EqEq \o t[3]

RECURSIVE ReachFrom(_, _)
\* the keys reachable from those of S through the recorded tuples
ReachFrom(og, S) ==
    LET more == S \cup {ReconstructedKey(OldGraphGet(og, k)[i]) :
                          <<k, i>> \in {<<k2, i2>> \in S \X (1..MaxAdj + 1) :
                                          i2 <= Len(OldGraphGet(og, k2))}}
    IN  IF more = S THEN S ELSE ReachFrom(og, more)

Reachable == ReachFrom(old_graph, {ROOT})

\* the text before the first "==" of a key
EmbeddedName(k) == Partition(k)[1]

\* the call the claim expects for tuple t recorded under key k
ExpectedCall(k, t) ==
    [parent_name    |-> IF EmbeddedName(k) = <<>> THEN NoName
                        ELSE canonicalize_name(EmbeddedName(k)),
     parent_version |-> IF Partition(k)[3] = <<>> THEN NoVersion
                        ELSE Version(Partition(k)[3]),
     req_type       |-> t[1],
     req_version    |-> Version(t[3]),
     req            |-> Requirement(t[4])]

\* the recorded tuples of reachable keys, as (key, position)
ReachableTuples ==
    {<<k, i>> \in Reachable \X (1..MaxAdj + 1) : i <= Len(OldGraphGet(old_graph, k))}

CountIn(seq, x) == Cardinality({i \in 1..Len(seq) : seq[i] = x})

\* C9: when migration has ended, add_dependency was called exactly once per
\* adjacency tuple of every key reachable from ROOT, with the recorded type
\* and version and with ROOT as parent exactly when the key's embedded name
\* is empty; nothing else made an edge
C9_OneCallPerReachableTuple ==
    mig_pc = "done" =>
        /\ Len(calls) = Cardinality(ReachableTuples)
        /\ \A kt \in ReachableTuples :
              LET c == ExpectedCall(kt[1], OldGraphGet(old_graph, kt[1])[kt[2]])
              IN  CountIn(calls, c) =
                    Cardinality({kt2 \in ReachableTuples :
                        ExpectedCall(kt2[1], OldGraphGet(old_graph, kt2[1])[kt2[2]]) = c})
        /\ Len(edges) = Len(calls)
        /\ \A i \in 1..Len(edges) :
              /\ edges[i].req_type = calls[i].req_type
              /\ edges[i].req = calls[i].req
              /\ (edges[i].parent = ROOT) <=> (calls[i].parent_name = NoName)

\* a==1 is reached (with B==2 behind it through its non-canonical name), c==3
\* is pushed though the file has no such key, and both calls with ROOT as
\* parent and calls with a named parent were made
C9_Witness ==
    /\ mig_pc = "done"
    /\ old_graph[ROOT] = <<TupleA>>
    /\ old_graph[KeyA] = <<TupleC, TupleB>>
    /\ old_graph[KeyB] = <<TupleA>>
    /\ Len(calls) = 4
    /\ \E i, j \in 1..Len(edges) : edges[i].parent = ROOT /\ edges[j].parent # ROOT

\* some key of the file holds tuples and is not reachable: they made no edge
C9_WitnessUnreachable ==
    /\ mig_pc = "done"
    /\ old_graph[ROOT] = <<TupleA>>
    /\ old_graph[KeyA] = <<>>
    /\ old_graph[KeyB] = <<TupleC, TupleA>>
    /\ Len(edges) = 1


-----------------------------------------------------------------------------
(* Properties of explain_duplicates *)

\* the nodes of a package that are in the install closure
InUseNodes(name) ==
    {k \in InstallReach(edges, {ROOT}) \ {ROOT} : NodeName(k) = name}

\* the package names with more than one version in the install closure
DuplicatedNames ==
    {n \in {NodeName(k) : k \in InstallReach(edges, {ROOT}) \ {ROOT}} :
        Cardinality(InUseNodes(n)) > 1}

\* the incoming install-edge entries of a package: one per (version node,
\* distinct requirement, parent key)
Entries(name) ==
    {<<edges[i].child, edges[i].req, edges[i].parent>> :
        i \in {j \in 1..Len(edges) : /\ edges[j].child \in InUseNodes(name)
                                     /\ edges[j].req_type = INSTALL}}

\* there is an entry, and every entry's specifier accepts v
AcceptedByAll(name, v) ==
    /\ Entries(name) # {}
    /\ \A en \in Entries(name) : Accepts(en[2], v)

\* C5: for each package with more than one version in the install closure
\* exactly one verdict is printed; it names an in-use version as usable by all
\* only if every entry accepts that version, and says that no single version
\* meets all requirements only if no in-use version is accepted by every entry
C5_VerdictMatchesEntries ==
    dup_pc = "done" =>
        /\ Len(dup_out) = Cardinality(DuplicatedNames)
        /\ \A n \in DuplicatedNames :
              Cardinality({i \in 1..Len(dup_out) : dup_out[i].name = n}) = 1
        /\ \A i \in 1..Len(dup_out) :
              LET in_use == {NodeVersion(k) : k \in InUseNodes(dup_out[i].name)}
              IN  IF dup_out[i].verdict = "usable"
                  THEN \E v \in in_use : /\ VersionStr(v) = dup_out[i].version
                                         /\ AcceptedByAll(dup_out[i].name, v)
                  ELSE \A v \in in_use : ~AcceptedByAll(dup_out[i].name, v)

KeyX1 == NodeKey(<<"x">>, 1)
KeyX2 == NodeKey(<<"x">>, 2)

\* x>=1 by a (resolved to 1) and x==2 by b: 2 is reported usable by all
C5_Witness ==
    /\ dup_pc = "done"
    /\ Entries(<<"x">>) = {<<KeyX1, Requirement(<<"x", ">", "=", "1">>), KeyA1>>,
                           <<KeyX2, Requirement(<<"x", "=", "=", "2">>), KeyB1>>}
    /\ dup_out = <<[name |-> <<"x">>, verdict |-> "usable", version |-> <<"2">>]>>

\* x==1 by a and x==2 by b: no single version
C5_WitnessNone ==
    /\ dup_pc = "done"
    /\ Entries(<<"x">>) = {<<KeyX1, Requirement(<<"x", "=", "=", "1">>), KeyA1>>,
                           <<KeyX2, Requirement(<<"x", "=", "=", "2">>), KeyB1>>}
    /\ dup_out = <<[name |-> <<"x">>, verdict |-> "none", version |-> <<>>]>>

\* a requires x twice, under two specifiers that both accept 2: a counts twice
C5_WitnessSameParentTwice ==
    /\ dup_pc = "done"
    /\ Entries(<<"x">>) = {<<KeyX1, Requirement(<<"x", ">", "=", "1">>), KeyA1>>,
                           <<KeyX2, Requirement(<<"x", "=", "=", "2">>), KeyA1>>}
    /\ dup_out = <<[name |-> <<"x">>, verdict |-> "usable", version |-> <<"2">>]>>

-----------------------------------------------------------------------------
(* Properties of _find_sdist / _find_source_dir *)

\* the suffix of the names the called function compares
CalledSuffix == IF find_args.func = "_find_sdist" THEN TarGz ELSE <<>>

\* the candidates of the call, in priority order
CalledBases == CandidateBases(find_args.name, FindVersion, CalledSuffix)

\* the entries of the directory that match the candidate of that priority
EntriesMatching(j) ==
    {listing[i] : i \in {k \in 1..Len(listing) :
                            LowerStr(listing[k]) = LowerStr(CalledBases[j])}}

\* the priorities some entry matches
MatchedPriorities == {j \in 1..Len(CalledBases) : EntriesMatching(j) # {}}

\* C11: without an override, the entry returned matches the candidate of the
\* highest priority that any entry matches, whatever the order of the listing,
\* and RuntimeError is raised when no entry matches any candidate
C11_HighestPriorityCandidateWins ==
    (find_pc \in {"done", "RuntimeError"} /\ find_args.override = NoName) =>
        IF MatchedPriorities = {}
        THEN find_pc = "RuntimeError"
        ELSE /\ find_pc = "done"
             /\ find_out[1] \in
                    EntriesMatching(CHOOSE j \in MatchedPriorities :
                                        \A k \in MatchedPriorities : j <= k)

\* entries matching two different candidates, the one of higher priority
\* listed first: that one was returned
C11_WitnessPriorityListedFirst ==
    /\ find_pc = "done"
    /\ find_args = [func |-> "_find_sdist", name |-> <<"A", ".", "b">>, override |-> NoName]
    /\ listing = << <<"a", "_", "b", "-", "1">> \o TarGz, <<"A", ".", "b", "-", "1">> \o TarGz >>
    /\ find_out = << <<"a", "_", "b", "-", "1">> \o TarGz >>

=============================================================================
